---- MODULE Spec2Model ----
(***************************************************************************)
(* Piano LED Visualizer: the event-to-visual rendering pipeline.           *)
(*                                                                         *)
(* Three contexts share the controller's display state and the animator's  *)
(* table: the ingest context (handle_midi_event -> note_on / note_off),    *)
(* the render context (led_update_loop -> update_display) and the control  *)
(* context (REST handlers: clear_all, set_color_scheme; and shutdown).     *)
(* A block of code that runs under `with self._lock` is one action; code   *)
(* between two such blocks is a point where the other contexts may run.    *)
(*                                                                         *)
(* Time is counted in ticks of a quarter of a second, so the default       *)
(* fade_time of 0.5 s is 2 ticks.  The clock itself is not a variable:     *)
(* an animation carries elapsed = time.time() - start_time in place of     *)
(* start_time, get_current_colors carries the age of its clock reading,    *)
(* and Tick advances both.  Python's int(x) on the non-negative products   *)
(* that occur here is the floor, written with \div.                        *)
(***************************************************************************)
EXTENDS Integers, Sequences, FiniteSets, TLC

\* ------------------------------------------------------------------ bounds
NumLeds == 2
MaxCommands == 3
\* the clock advances at most this far between get_current_colors' reading
\* of it and its taking the animator's lock
MaxLag == 1
\* the longest strip of the runs over configurations
MaxStrip == 90
\* the websockets that connect, and the messages counted for one of them
MaxClients == 3
MaxSent == 2

\* ------------------------------------------------------- program constants
\* range(21, 109) of _create_note_to_led_mapping
FirstNote == 21
LastNote == 108
\* fade_time = 0.5 of note_off; time is counted in quarters of a second
DefaultFadeTime == 2
\* brightness = 0.8 of LEDConfig; brightness is counted in hundredths
DefaultBrightness == 80
None == 0 - 1
\* the hardware libraries were imported: the strip exists once initialized
RASPBERRY_PI == TRUE

Black == <<0, 0, 0>>

\* ------------------------------------------------------------------ inputs
\* the mapped notes and the first note past the strip
Notes == FirstNote .. (FirstNote + NumLeds)
Velocities == {0, 127}
FadeTimes == {0, 1}
SchemeNames == {"fire", "no_such_scheme"}

NoEvent == [type |-> "none", note |-> None, velocity |-> None,
            control |-> None, value |-> None]

\* the status bytes of a device message, message_type = status_byte & 0xF0
NoteOnStatus == 144
NoteOffStatus == 128
ControlChangeStatus == 176

\* _midi_callback: the MIDIEvent made of a device message; a Note On with
\* velocity 0 is made a note_off; for a Control Change the two data bytes
\* are the control and its value. (channel is 0 throughout; timestamp is the
\* clock reading at this point.)
_midi_callback(message_type, note, velocity) ==
  CASE message_type = NoteOnStatus ->
         IF velocity > 0
           THEN [type |-> "note_on", note |-> note, velocity |-> velocity,
                 control |-> None, value |-> None]
           ELSE [type |-> "note_off", note |-> note, velocity |-> None,
                 control |-> None, value |-> None]
    [] message_type = NoteOffStatus ->
         [type |-> "note_off", note |-> note, velocity |-> None,
          control |-> None, value |-> None]
    [] OTHER ->
         [type |-> "control_change", note |-> None, velocity |-> None,
          control |-> note, value |-> velocity]

\* simulate_note_on / simulate_note_off: the MIDIEvent is made as asked for
simulate_note_on(note, velocity) ==
  [type |-> "note_on", note |-> note, velocity |-> velocity,
   control |-> None, value |-> None]

simulate_note_off(note) ==
  [type |-> "note_off", note |-> note, velocity |-> None,
   control |-> None, value |-> None]

\* the events that reach the event callback, from the device and from the
\* simulate endpoints
DeviceEvents ==
  {_midi_callback(t, note, velocity) :
     t \in {NoteOnStatus, NoteOffStatus, ControlChangeStatus},
     note \in Notes, velocity \in Velocities}

SimulatedEvents ==
  {simulate_note_on(note, velocity) : note \in Notes, velocity \in Velocities}
    \cup {simulate_note_off(note) : note \in Notes}

Events == DeviceEvents \cup SimulatedEvents

VARIABLES
  is_initialized,      \* LEDController.is_initialized
  lifecycle,           \* "new", "running", "stopping", "stopped"
  pixels,              \* LEDController.pixels: <<>> is None, else the pixel buffer
  strip,               \* the frame the last pixels.show() sent out: <<>> before any
  current_led_state,   \* LEDController.current_led_state
  active_animations,   \* LEDAnimator.active_animations, in dict order
  current_scheme,      \* ColorManager.current_scheme
  commands_processed,  \* LEDController.stats['commands_processed']
  pc_ingest,           \* where the ingest context is
  caller,              \* "handler" (handle_midi_event) or "api" (a direct call)
  event,               \* the MIDIEvent being handled
  color,               \* note_on's color / note_off's current_color
  fade_time,           \* note_off's fade_time
  emitted,             \* what this invocation of the handler has emitted
  result,              \* what note_on / note_off returned: "none" before it does
  pc_render,           \* where the render context is
  current_time_age,    \* time.time() - current_time of get_current_colors
  animated_colors,     \* update_display's animated_colors, in dict order
  config,              \* LEDController.config: num_leds and brightness
  note_to_led_map,     \* LEDController.note_to_led_map
  clients,             \* WebSocketManager.clients: observer -> messages_sent
  clients_list,        \* broadcast_message's clients_list: {} when none runs
  tasks,               \* the send_to_client coroutines that have not yet run
  midi_in,             \* MIDIInputHandler.midi_in: "none", or a port "closed" / "open"
  port_name,           \* MIDIInputHandler.port_name: "none" is None
  is_connected,        \* MIDIInputHandler.is_connected
  midi_connected,      \* app_status['midi_connected']
  lock_owner,          \* each threading.Lock: the thread inside it, or "none"
  todo,                \* each thread: the lock operations and effects of
                       \* the call it is in that are still to come
  cleared,             \* clear_all() has returned and no event has been
                       \* handled since
  event_callback,      \* MIDIInputHandler.event_callback: "none" is None
  events_processed     \* MIDIProcessor.stats['events_processed']

vars == << is_initialized, lifecycle, pixels, strip,
           current_led_state, active_animations, current_scheme,
           commands_processed, pc_ingest, caller, event, color,
           fade_time, emitted, result, pc_render, current_time_age,
           animated_colors, config, note_to_led_map, clients, clients_list,
           tasks, midi_in, port_name, is_connected, midi_connected,
           lock_owner, todo, cleared, event_callback, events_processed >>

ledVars == << pixels, strip, current_led_state >>
ingestVars == << pc_ingest, caller, event, color, fade_time, emitted,
                result >>
renderVars == << pc_render, current_time_age, animated_colors >>
configVars == << config, note_to_led_map >>
wsVars == << clients, clients_list, tasks >>
lockVars == << lock_owner, todo >>
midiVars == << midi_in, port_name, is_connected, midi_connected,
              event_callback, events_processed >>
controllerVars == << is_initialized, lifecycle, ledVars, active_animations,
                     current_scheme, commands_processed, ingestVars,
                     renderVars, configVars, midiVars, lockVars, cleared >>

Leds == 0 .. (config.num_leds - 1)

\* --------------------------------------------------------- ColorManager
\* Each scheme is computed in exact integer arithmetic: with velocity_norm =
\* velocity/127 every product below is a rational whose floor equals the
\* int() of the floating-point value the code computes (compared with the
\* code for every note 21..108 and velocity 0..127), with one exception
\* that is kept: ocean at velocity 127, where (1.0 - 0.8) / 0.2 is just
\* below 1.0 in floating point and int(255 * factor) is 254.
_rainbow_scheme(note, velocity) ==
  LET k == 2 * (note - FirstNote)
      i == (k \div 29) % 6
      m == k % 29
      v == (255 * velocity) \div 127
      p == 0
      q == (255 * velocity * (29 - m)) \div (127 * 29)
      t == (255 * velocity * m) \div (127 * 29)
  IN CASE i = 0 -> <<v, t, p>>
       [] i = 1 -> <<q, v, p>>
       [] i = 2 -> <<p, v, t>>
       [] i = 3 -> <<p, q, v>>
       [] i = 4 -> <<t, p, v>>
       [] OTHER -> <<v, p, q>>

\* the velocity scheme gone wrong: the upper half starts at full red
_velocity_scheme_stepped(note, velocity) ==
  IF 2 * velocity < 127
    THEN <<0, (510 * velocity) \div 127, 255>>
    ELSE << 255,
            (255 * (254 - 2 * velocity)) \div 127,
            (255 * (254 - 2 * velocity)) \div 127 >>

_velocity_scheme(note, velocity) ==
  IF 2 * velocity < 127
    THEN <<0, (510 * velocity) \div 127, 255>>
    ELSE << (255 * (2 * velocity - 127)) \div 127,
            (255 * (254 - 2 * velocity)) \div 127,
            (255 * (254 - 2 * velocity)) \div 127 >>

note_colors ==
  << <<255, 0, 0>>, <<255, 127, 0>>, <<255, 165, 0>>, <<255, 215, 0>>,
     <<255, 255, 0>>, <<127, 255, 0>>, <<0, 255, 0>>, <<0, 255, 127>>,
     <<0, 255, 255>>, <<0, 127, 255>>, <<0, 0, 255>>, <<127, 0, 255>> >>

_note_based_scheme(note, velocity) ==
  LET base_color == note_colors[(note % 12) + 1]
  IN [c \in 1..3 |-> (base_color[c] * velocity) \div 127]

black_keys == {1, 3, 6, 8, 10}

_white_keys_scheme(note, velocity) ==
  LET intensity == (255 * velocity) \div 127
  IN IF (note % 12) \in black_keys
       THEN <<0, 0, intensity>>
       ELSE <<intensity, intensity, intensity>>

_fire_scheme(note, velocity) ==
  IF 10 * velocity < 381
    THEN << (1390 * velocity) \div 381, 0, 0 >>
    ELSE IF 10 * velocity < 889
      THEN << 255, (165 * (10 * velocity - 381)) \div 508, 0 >>
      ELSE << 255, 165 + ((90 * (10 * velocity - 889)) \div 381),
              (255 * (10 * velocity - 889)) \div 381 >>

_ocean_scheme(note, velocity) ==
  IF 10 * velocity < 508
    THEN << 0, 0, (1390 * velocity) \div 508 >>
    ELSE IF 10 * velocity < 1016
      THEN << 0, (255 * (10 * velocity - 508)) \div 508, 255 >>
      ELSE LET f == 10 * velocity - 1016
               blue_green == 255 - ((55 * f + 253) \div 254)
           IN << IF velocity = 127 THEN 254 ELSE (255 * f) \div 254,
                 blue_green, blue_green >>

color_schemes ==
  {"rainbow", "velocity", "note_based", "white_keys", "fire", "ocean"}

get_color(scheme, note, velocity) ==
  CASE scheme = "rainbow" -> _rainbow_scheme(note, velocity)
    [] scheme = "velocity" -> _velocity_scheme(note, velocity)
    [] scheme = "note_based" -> _note_based_scheme(note, velocity)
    [] scheme = "white_keys" -> _white_keys_scheme(note, velocity)
    [] scheme = "fire" -> _fire_scheme(note, velocity)
    [] scheme = "ocean" -> _ocean_scheme(note, velocity)
    [] OTHER -> _velocity_scheme(note, velocity)

\* set_scheme gone wrong: the name is not looked up in color_schemes
set_scheme_unchecked(current, scheme_name) == scheme_name

\* set_scheme: what it returns ...
set_scheme_returns(scheme_name) == scheme_name \in color_schemes

\* ... and the scheme that is current after set_scheme(scheme_name)
set_scheme(current, scheme_name) ==
  IF scheme_name \in color_schemes THEN scheme_name ELSE current

\* ------------------------------------------- _create_note_to_led_mapping
\* the mapping gone wrong: the test against the strip length is left out
_create_note_to_led_mapping_untruncated(num_leds) ==
  [note \in FirstNote .. LastNote |-> note - FirstNote]

_create_note_to_led_mapping(num_leds) ==
  [note \in {n \in FirstNote .. LastNote : n - FirstNote < num_leds}
     |-> note - FirstNote]


\* ------------------------------------------------------------ LEDAnimator
\* active_animations is a Python dict keyed by note: here the sequence of
\* its values in insertion order, each carrying its key in .note.
HasAnim(anims, note) == \E i \in 1..Len(anims) : anims[i].note = note

AnimOf(anims, note) ==
  anims[CHOOSE i \in 1..Len(anims) : anims[i].note = note]

\* add_fade_out gone wrong: a list of animations, appended to
add_fade_out_appended(anims, note, led_index, initial_color, ft) ==
  Append(anims, [note |-> note, type |-> "fade_out", led_index |-> led_index,
                 start_color |-> initial_color, elapsed |-> 0,
                 duration |-> ft])

\* self.active_animations[note] = {...}; start_time = time.time(), so the
\* new entry's elapsed is 0
add_fade_out(anims, note, led_index, initial_color, ft) ==
  LET anim_data == [note |-> note, type |-> "fade_out", led_index |-> led_index,
                    start_color |-> initial_color, elapsed |-> 0,
                    duration |-> ft]
  IN IF HasAnim(anims, note)
       THEN [i \in 1..Len(anims) |->
               IF anims[i].note = note THEN anim_data ELSE anims[i]]
       ELSE Append(anims, anim_data)

remove_animation(anims, note) ==
  SelectSeq(anims, LAMBDA a : a.note # note)

\* elapsed = current_time - start_time, for a clock reading that is age old
elapsed_at(anim_data, age) == anim_data.elapsed - age

\* progress >= 1.0, with progress = elapsed / duration and duration > 0
animation_complete(anim_data, age) ==
  elapsed_at(anim_data, age) >= anim_data.duration

\* faded_color gone wrong: the animation holds its note and asks the
\* current scheme for the colour to scale
faded_color_by_scheme(anim_data, age) ==
  [c \in 1..3 |->
     (get_color(current_scheme, anim_data.note, 127)[c]
        * (anim_data.duration - elapsed_at(anim_data, age)))
        \div anim_data.duration]

\* int(c * factor), factor = 1.0 - progress, for each channel of start_color
faded_color(anim_data, age) ==
  [c \in 1..3 |->
     (anim_data.start_color[c] * (anim_data.duration - elapsed_at(anim_data, age)))
        \div anim_data.duration]

\* current_colors[led_index] = value, on a dict held in insertion order
SetItem(colors, led_index, value) ==
  IF \E i \in 1..Len(colors) : colors[i].led_index = led_index
    THEN [i \in 1..Len(colors) |->
            IF colors[i].led_index = led_index
              THEN [led_index |-> led_index, color |-> value]
              ELSE colors[i]]
    ELSE Append(colors, [led_index |-> led_index, color |-> value])

RECURSIVE colors_of_first(_, _, _)
colors_of_first(anims, age, k) ==
  IF k = 0
    THEN << >>
    ELSE SetItem(colors_of_first(anims, age, k - 1), anims[k].led_index,
                 IF animation_complete(anims[k], age)
                   THEN Black
                   ELSE faded_color(anims[k], age))

\* get_current_colors gone wrong: a completed animation is removed without
\* its final black
current_colors_without_complete(anims, age) ==
  LET kept == SelectSeq(anims, LAMBDA a : ~animation_complete(a, age))
  IN colors_of_first(kept, age, Len(kept))

\* get_current_colors: the dict it returns ...
current_colors(anims, age) == colors_of_first(anims, age, Len(anims))

\* get_current_colors gone wrong: animations_to_remove is never processed
animations_kept_all(anims, age) == anims

\* get_current_colors gone wrong: the faded colour is stored back as the
\* animation's start_color
animations_kept_decayed(anims, age) ==
  LET kept == SelectSeq(anims, LAMBDA a : ~animation_complete(a, age))
  IN [i \in 1..Len(kept) |->
        [kept[i] EXCEPT !.start_color = faded_color(kept[i], age)]]

\* get_current_colors gone wrong: progress > 1.0 completes an animation
animations_kept_strict(anims, age) ==
  SelectSeq(anims, LAMBDA a : elapsed_at(a, age) <= a.duration)

\* ... and the table it leaves
animations_kept(anims, age) ==
  SelectSeq(anims, LAMBDA a : ~animation_complete(a, age))

Keys(colors) == {colors[i].led_index : i \in 1..Len(colors)}

ColorAt(colors, led_index) ==
  colors[CHOOSE i \in 1..Len(colors) : colors[i].led_index = led_index].color

\* one tick of the clock, seen from the table: past duration + MaxLag every
\* reading of the clock finds the animation complete, so elapsed stops there
advance(anims) ==
  [i \in 1..Len(anims) |->
     IF anims[i].elapsed < anims[i].duration + MaxLag
       THEN [anims[i] EXCEPT !.elapsed = @ + 1]
       ELSE anims[i]]

\* ---------------------------------------------------------- LEDController
AllBlack == [i \in Leds |-> Black]

has_pixels == RASPBERRY_PI /\ pixels # << >>

\* the assignment gone wrong: only the upper end of the range is checked,
\* and a negative index counts from the end of the list
set_led_state_from_end(state, led_index, value) ==
  IF led_index >= config.num_leds \/ led_index < 0 - config.num_leds
    THEN state
    ELSE IF led_index < 0
           THEN [state EXCEPT ![config.num_leds + led_index] = value]
           ELSE [state EXCEPT ![led_index] = value]

\* the assignment self.current_led_state[led_index] = color, after the
\* range check of _set_led_color
set_led_state(state, led_index, value) ==
  IF led_index < 0 \/ led_index >= config.num_leds
    THEN state
    ELSE [state EXCEPT ![led_index] = value]

\* the loop of update_display over the first k entries of animated_colors
RECURSIVE apply_first(_, _, _)
apply_first(state, colors, k) ==
  IF k = 0
    THEN state
    ELSE LET done == apply_first(state, colors, k - 1)
         IN IF colors[k].led_index < config.num_leds
              THEN [done EXCEPT ![colors[k].led_index] = colors[k].color]
              ELSE done

apply_colors(state, colors) == apply_first(state, colors, Len(colors))

\* event.velocity or 64
velocity_or_64(velocity) ==
  IF velocity = None \/ velocity = 0 THEN 64 ELSE velocity

\* the record handle_midi_event emits
payload(e) == [type |-> e.type, note |-> e.note, velocity |-> e.velocity]

\* LEDConfig(): a dataclass, it takes the values it is given
\* the three locks of the pipeline and the threads that take them: the
\* rtmidi callback thread, a thread that simulates notes, the render loop
\* and a thread that serves a control request
LockNames == {"MIDIInputHandler._lock", "LEDAnimator._lock",
              "LEDController._lock"}
Threads == {"device", "synthetic", "render", "control"}

DefaultConfig == [num_leds |-> NumLeds, brightness |-> DefaultBrightness]

\* the system once LEDController(config) is constructed: __init__ of
\* LEDController, LEDAnimator, ColorManager and WebSocketManager
components_init(cfg, callback) ==
  /\ config = cfg
  /\ note_to_led_map = _create_note_to_led_mapping(cfg.num_leds)
  /\ is_initialized = FALSE
  /\ lifecycle = "new"
  /\ pixels = << >>
  /\ strip = << >>
  /\ current_led_state = AllBlack
  /\ active_animations = << >>
  /\ current_scheme = "velocity"
  /\ commands_processed = 0
  /\ pc_ingest = "idle"
  /\ caller = "handler"
  /\ event = NoEvent
  /\ color = Black
  /\ fade_time = 0
  /\ emitted = << >>
  /\ result = "none"
  /\ pc_render = "sleep"
  /\ current_time_age = 0
  /\ animated_colors = << >>
  /\ clients = << >>
  /\ clients_list = {}
  /\ tasks = {}
  /\ midi_in = "none"
  /\ port_name = "none"
  /\ is_connected = FALSE
  /\ midi_connected = FALSE
  /\ lock_owner = [l \in LockNames |-> "none"]
  /\ todo = [thread \in Threads |-> << >>]
  /\ cleared = FALSE
  /\ event_callback = callback
  /\ events_processed = 0

\* ... as the application has it when events flow: initialize_components
\* has installed handle_midi_event as the event callback
LEDController_init(cfg) == components_init(cfg, "handle_midi_event")

Init == LEDController_init(DefaultConfig)

\* ------------------------------------------------------- control context
\* initialize(): the strip is created, clear_all() runs, the flag is set
Initialize ==
  /\ lifecycle = "new"
  /\ pixels' = IF RASPBERRY_PI THEN AllBlack ELSE << >>
  /\ strip' = pixels'
  /\ current_led_state' = AllBlack
  /\ is_initialized' = TRUE
  /\ lifecycle' = "running"
  /\ UNCHANGED << configVars, midiVars, lockVars, cleared, wsVars, active_animations, current_scheme, commands_processed,
                  ingestVars, renderVars >>

\* clear_all gone wrong: the buffer is blackened and never shown
clear_all_unshown ==
  /\ current_led_state' = AllBlack
  /\ pixels' = IF has_pixels THEN AllBlack ELSE pixels
  /\ strip' = strip

\* clear_all(), one block under the controller's lock, pixels.show() at its
\* end
clear_all ==
  /\ current_led_state' = AllBlack
  /\ pixels' = IF has_pixels THEN AllBlack ELSE pixels
  /\ strip' = IF has_pixels THEN pixels' ELSE strip

ClearAll ==
  /\ lifecycle = "running"
  /\ clear_all
  /\ UNCHANGED << configVars, midiVars, lockVars, cleared, wsVars, is_initialized, lifecycle, active_animations,
                  current_scheme, commands_processed, ingestVars, renderVars >>

\* set_brightness(brightness), in hundredths: max(0.0, min(1.0, brightness))
\* is stored in the configuration (and handed to the strip, whose own
\* brightness register is not part of the state here)
clamp_brightness(brightness) ==
  IF brightness > 100 THEN 100 ELSE IF brightness < 0 THEN 0 ELSE brightness

SetBrightness(brightness) ==
  /\ config' = [config EXCEPT !.brightness = clamp_brightness(brightness)]
  /\ UNCHANGED << note_to_led_map, midiVars, lockVars, cleared, wsVars, is_initialized, lifecycle, ledVars,
                  active_animations, current_scheme, commands_processed,
                  ingestVars, renderVars >>

SetColorScheme(scheme_name) ==
  /\ lifecycle = "running"
  /\ current_scheme' = set_scheme(current_scheme, scheme_name)
  /\ UNCHANGED << configVars, midiVars, lockVars, cleared, wsVars, is_initialized, lifecycle, ledVars, active_animations,
                  commands_processed, ingestVars, renderVars >>

\* shutdown(): animator.stop() and clear_all() ...
ShutdownClear ==
  /\ lifecycle = "running"
  /\ clear_all
  /\ lifecycle' = "stopping"
  /\ UNCHANGED << configVars, midiVars, lockVars, cleared, wsVars, is_initialized, active_animations, current_scheme,
                  commands_processed, ingestVars, renderVars >>

\* ... then pixels.deinit() and is_initialized = False
ShutdownFinish ==
  /\ lifecycle = "stopping"
  /\ is_initialized' = FALSE
  /\ lifecycle' = "stopped"
  /\ UNCHANGED << configVars, midiVars, lockVars, cleared, wsVars, ledVars, active_animations, current_scheme,
                  commands_processed, ingestVars, renderVars >>

\* time.time() advances by one tick
Tick ==
  /\ pc_render = "tick" => current_time_age < MaxLag
  /\ active_animations' = advance(active_animations)
  /\ current_time_age' =
       IF pc_render = "tick" THEN current_time_age + 1 ELSE current_time_age
  /\ UNCHANGED << configVars, midiVars, lockVars, cleared, wsVars, is_initialized, lifecycle, ledVars, current_scheme,
                  commands_processed, ingestVars, pc_render, animated_colors >>

\* -------------------------------------------------------- ingest context
\* _set_led_color gone wrong: the pixel buffer is not written
_set_led_color_state_only(led_index, value) ==
  /\ current_led_state' = set_led_state(current_led_state, led_index, value)
  /\ pixels' = pixels
  /\ strip' = strip

\* _set_led_color(led_index, value), one block under the controller's lock;
\* auto_write is False, the pixel is not shown here
_set_led_color(led_index, value) ==
  /\ current_led_state' = set_led_state(current_led_state, led_index, value)
  /\ pixels' = IF has_pixels
                 THEN set_led_state(pixels, led_index, value)
                 ELSE pixels
  /\ strip' = strip

\* color_manager.get_color(note, velocity) called on its own: event keeps
\* the arguments of the call and color what it returned
GetColor(note, velocity) ==
  /\ pc_ingest = "idle"
  /\ event' = simulate_note_on(note, velocity)
  /\ color' = get_color(current_scheme, note, velocity)
  /\ UNCHANGED << configVars, midiVars, lockVars, cleared, wsVars, is_initialized, lifecycle, ledVars,
                  active_animations, current_scheme, commands_processed,
                  pc_ingest, caller, fade_time, emitted, result, renderVars >>

\* _set_led_color(led_index, color) called on its own
SetLedColor(led_index, value) ==
  /\ _set_led_color(led_index, value)
  /\ UNCHANGED << configVars, midiVars, lockVars, cleared, wsVars, is_initialized, lifecycle,
                  active_animations, current_scheme, commands_processed,
                  ingestVars, renderVars >>

\* a call that ends at one of the guards: handle_midi_event does not call an
\* uninitialized controller, note_on / note_off called all the same return
\* False
not_called_or_false ==
  IF caller' = "handler" /\ ~is_initialized THEN "none" ELSE "False"

\* note_on_begin gone wrong: handle_midi_event returns with note_on, before
\* its emit
note_on_begin_silent(e, out) ==
  IF is_initialized /\ e.note \in DOMAIN note_to_led_map
    THEN /\ color' = get_color(current_scheme, e.note, velocity_or_64(e.velocity))
         /\ pc_ingest' = "note_on_remove"
         /\ emitted' = << >>
         /\ result' = "none"
    ELSE /\ color' = color
         /\ pc_ingest' = "return"
         /\ emitted' = << >>
         /\ result' = not_called_or_false

\* note_on up to its first lock: the two guards, the map lookup, get_color;
\* without a mapped note handle_midi_event goes on to its emit
note_on_begin(e, out) ==
  IF is_initialized /\ e.note \in DOMAIN note_to_led_map
    THEN /\ color' = get_color(current_scheme, e.note, velocity_or_64(e.velocity))
         /\ pc_ingest' = "note_on_remove"
         /\ emitted' = << >>
         /\ result' = "none"
    ELSE /\ color' = color
         /\ pc_ingest' = "return"
         /\ emitted' = out
         /\ result' = not_called_or_false

\* note_off_begin gone wrong: the fade starts from the colour the scheme
\* gives the note, not from what the LED shows
note_off_begin_scheme_color(e, ft, out) ==
  IF is_initialized /\ e.note \in DOMAIN note_to_led_map
    THEN /\ color' = get_color(current_scheme, e.note, 64)
         /\ pc_ingest' = IF ft > 0 THEN "note_off_fade" ELSE "note_off_set"
         /\ emitted' = << >>
         /\ result' = "none"
    ELSE /\ color' = color
         /\ pc_ingest' = "return"
         /\ emitted' = out
         /\ result' = not_called_or_false

\* note_off_begin gone wrong: is_initialized is not looked at
note_off_begin_unchecked(e, ft, out) ==
  IF e.note \in DOMAIN note_to_led_map
    THEN /\ color' = current_led_state[note_to_led_map[e.note]]
         /\ pc_ingest' = IF ft > 0 THEN "note_off_fade" ELSE "note_off_set"
         /\ emitted' = << >>
         /\ result' = "none"
    ELSE /\ color' = color
         /\ pc_ingest' = "return"
         /\ emitted' = out
         /\ result' = not_called_or_false

\* note_off gone wrong: fade_time is not tested, every note_off fades
note_off_begin_any_fade(e, ft, out) ==
  IF is_initialized /\ e.note \in DOMAIN note_to_led_map
    THEN /\ color' = current_led_state[note_to_led_map[e.note]]
         /\ pc_ingest' = "note_off_fade"
         /\ emitted' = << >>
         /\ result' = "none"
    ELSE /\ color' = color
         /\ pc_ingest' = "return"
         /\ emitted' = out
         /\ result' = not_called_or_false

\* note_off up to its first lock: the two guards, the map lookup and the
\* read of current_led_state[led_index]
note_off_begin(e, ft, out) ==
  IF is_initialized /\ e.note \in DOMAIN note_to_led_map
    THEN /\ color' = current_led_state[note_to_led_map[e.note]]
         /\ pc_ingest' = IF ft > 0 THEN "note_off_fade" ELSE "note_off_set"
         /\ emitted' = << >>
         /\ result' = "none"
    ELSE /\ color' = color
         /\ pc_ingest' = "return"
         /\ emitted' = out
         /\ result' = not_called_or_false

\* handle_midi_event(event), called by the event source under its lock
HandleMidiEvent(e) ==
  /\ pc_ingest = "idle"
  /\ lifecycle # "new"
  /\ commands_processed < MaxCommands
  /\ event' = e
  /\ caller' = "handler"
  /\ fade_time' = DefaultFadeTime
  /\ CASE e.type = "note_on" /\ e.note # None ->
            note_on_begin(e, << payload(e) >>)
       [] e.type = "note_off" /\ e.note # None ->
            note_off_begin(e, DefaultFadeTime, << payload(e) >>)
       [] OTHER -> /\ color' = color
                   /\ pc_ingest' = "return"
                   /\ emitted' = << payload(e) >>
                   /\ result' = "none"
  /\ UNCHANGED << configVars, midiVars, lockVars, cleared, wsVars, is_initialized, lifecycle, ledVars, active_animations,
                  current_scheme, commands_processed, renderVars >>

\* note_on(note, velocity) called directly on the controller, whatever its
\* state, with a velocity above 0 (which "event.velocity or 64" leaves alone)
note_on(note, velocity) ==
  /\ pc_ingest = "idle"
  /\ velocity > 0
  /\ commands_processed < MaxCommands
  /\ event' = simulate_note_on(note, velocity)
  /\ caller' = "api"
  /\ fade_time' = 0
  /\ note_on_begin(event', << >>)
  /\ UNCHANGED << configVars, midiVars, lockVars, cleared, wsVars, is_initialized, lifecycle, ledVars, active_animations,
                  current_scheme, commands_processed, renderVars >>

\* note_off(note, fade_time) called directly on the controller, whatever its
\* state
note_off(note, ft) ==
  /\ pc_ingest = "idle"
  /\ commands_processed < MaxCommands
  /\ event' = simulate_note_off(note)
  /\ caller' = "api"
  /\ fade_time' = ft
  /\ note_off_begin(event', ft, << >>)
  /\ UNCHANGED << configVars, midiVars, lockVars, cleared, wsVars, is_initialized, lifecycle, ledVars, active_animations,
                  current_scheme, commands_processed, renderVars >>

\* note_off(note, fade_time) called directly on the controller
NoteOffCall(note, ft) ==
  /\ pc_ingest = "idle"
  /\ lifecycle # "new"
  /\ commands_processed < MaxCommands
  /\ event' = simulate_note_off(note)
  /\ caller' = "api"
  /\ fade_time' = ft
  /\ note_off_begin(event', ft, << >>)
  /\ UNCHANGED << configVars, midiVars, lockVars, cleared, wsVars, is_initialized, lifecycle, ledVars, active_animations,
                  current_scheme, commands_processed, renderVars >>

\* note_on: self.animator.remove_animation(note)
NoteOnRemove ==
  /\ pc_ingest = "note_on_remove"
  /\ active_animations' = remove_animation(active_animations, event.note)
  /\ pc_ingest' = "note_on_set"
  /\ UNCHANGED << configVars, midiVars, lockVars, cleared, wsVars, is_initialized, lifecycle, ledVars, current_scheme,
                  commands_processed, caller, event, color, fade_time,
                  emitted, result, renderVars >>

\* the command is counted, note_on / note_off returns True and, called by
\* handle_midi_event, the event is emitted
command_done ==
  /\ commands_processed' = commands_processed + 1
  /\ pc_ingest' = "return"
  /\ emitted' = IF caller = "handler" THEN << payload(event) >> ELSE << >>
  /\ result' = "True"

\* note_on: _set_led_color(led_index, color)
NoteOnSet ==
  /\ pc_ingest = "note_on_set"
  /\ _set_led_color(note_to_led_map[event.note], color)
  /\ command_done
  /\ UNCHANGED << configVars, midiVars, lockVars, cleared, wsVars, is_initialized, lifecycle, active_animations,
                  current_scheme, caller, event, color, fade_time,
                  renderVars >>

\* note_off, fade_time > 0: animator.add_fade_out(...)
NoteOffFade ==
  /\ pc_ingest = "note_off_fade"
  /\ active_animations' =
       add_fade_out(active_animations, event.note, note_to_led_map[event.note],
                    color, fade_time)
  /\ command_done
  /\ UNCHANGED << configVars, midiVars, lockVars, cleared, wsVars, is_initialized, lifecycle, ledVars, current_scheme, caller,
                  event, color, fade_time, renderVars >>

\* note_off, fade_time <= 0: _set_led_color(led_index, (0, 0, 0))
NoteOffSet ==
  /\ pc_ingest = "note_off_set"
  /\ _set_led_color(note_to_led_map[event.note], Black)
  /\ command_done
  /\ UNCHANGED << configVars, midiVars, lockVars, cleared, wsVars, is_initialized, lifecycle, active_animations,
                  current_scheme, caller, event, color, fade_time,
                  renderVars >>

\* the call returns; its locals are gone
Return ==
  /\ pc_ingest = "return"
  /\ pc_ingest' = "idle"
  /\ caller' = "handler"
  /\ event' = NoEvent
  /\ color' = Black
  /\ fade_time' = 0
  /\ emitted' = << >>
  /\ result' = "none"
  /\ UNCHANGED << configVars, midiVars, lockVars, cleared, wsVars, is_initialized, lifecycle, ledVars, active_animations,
                  current_scheme, commands_processed, renderVars >>

\* -------------------------------------------------------- render context
\* led_update_loop finds the controller initialized; update_display starts
\* and get_current_colors reads the clock, before it takes the lock
RenderStart ==
  /\ pc_render = "sleep"
  /\ is_initialized
  /\ current_time_age' = 0
  /\ pc_render' = "tick"
  /\ UNCHANGED << configVars, midiVars, lockVars, cleared, wsVars, is_initialized, lifecycle, ledVars, active_animations,
                  current_scheme, commands_processed, ingestVars,
                  animated_colors >>

\* get_current_colors, the block under the animator's lock
RenderTick ==
  /\ pc_render = "tick"
  /\ animated_colors' = current_colors(active_animations, current_time_age)
  /\ active_animations' = animations_kept(active_animations, current_time_age)
  /\ pc_render' = "apply"
  /\ current_time_age' = 0
  /\ UNCHANGED << configVars, midiVars, lockVars, cleared, wsVars, is_initialized, lifecycle, ledVars, current_scheme,
                  commands_processed, ingestVars >>

\* update_display, the block under the controller's lock: the frame is
\* written to current_led_state and to the pixel buffer, then shown
RenderApply ==
  /\ pc_render = "apply"
  /\ current_led_state' = apply_colors(current_led_state, animated_colors)
  /\ pixels' = IF has_pixels
                 THEN apply_colors(pixels, animated_colors)
                 ELSE pixels
  /\ strip' = IF has_pixels THEN pixels' ELSE strip
  /\ pc_render' = "sleep"
  /\ animated_colors' = << >>
  /\ UNCHANGED << configVars, midiVars, lockVars, cleared, wsVars, is_initialized, lifecycle, active_animations,
                  current_scheme, commands_processed, ingestVars,
                  current_time_age >>

\* ---------------------------------------------------------- sink failures
\* the pixel write of _set_led_color raises: current_led_state is already
\* written, the exception leaves note_on / note_off before the counter and
\* handle_midi_event catches it, its emit skipped
SetLedColorFails ==
  /\ pc_ingest \in {"note_on_set", "note_off_set"}
  /\ has_pixels
  /\ current_led_state' =
       set_led_state(current_led_state, note_to_led_map[event.note],
                     IF pc_ingest = "note_on_set" THEN color ELSE Black)
  /\ pc_ingest' = "return"
  /\ UNCHANGED << configVars, midiVars, lockVars, cleared, wsVars, is_initialized, lifecycle, pixels, strip,
                  active_animations,
                  current_scheme, commands_processed, caller, event, color,
                  fade_time, emitted, result, renderVars >>

\* update_display: the k-th pixel write raises; the entries before it are
\* written, the k-th is written to current_led_state only, the rest of the
\* frame is dropped and led_update_loop catches the exception
RenderApplyFails(k) ==
  /\ pc_render = "apply"
  /\ has_pixels
  /\ k \in 1 .. Len(animated_colors)
  /\ current_led_state' = apply_first(current_led_state, animated_colors, k)
  /\ pixels' = apply_first(pixels, animated_colors, k - 1)
  /\ strip' = strip
  /\ pc_render' = "sleep"
  /\ animated_colors' = << >>
  /\ UNCHANGED << configVars, midiVars, lockVars, cleared, wsVars, is_initialized, lifecycle, active_animations,
                  current_scheme, commands_processed, ingestVars,
                  current_time_age >>

\* -------------------------------------------------------- MIDIInputHandler
\* the rtmidi library was imported: connect opens real ports
rtmidi == TRUE

\* the names connect is asked for (None: the first port) and the ports the
\* system may have when it is asked
PortNames == {"none", "piano", "no_such_port"}
PortLists == { << >>, << "piano" >> }

InPorts(ports, name) == \E i \in 1..Len(ports) : ports[i] = name

\* connect(port_name): what it returns ...
connect_returns(name, ports) ==
  IF ~rtmidi THEN TRUE
  ELSE IF name # "none" THEN InPorts(ports, name) ELSE Len(ports) > 0

\* ... and what it does: a new rtmidi.MidiIn() replaces the one held; the
\* port is opened and is_connected set only on the way to return True
connect(name, ports) ==
  IF ~rtmidi
    THEN /\ is_connected' = TRUE
         /\ port_name' = "Simulated MIDI Input"
         /\ midi_in' = midi_in
    ELSE IF connect_returns(name, ports)
      THEN /\ midi_in' = "open"
           /\ port_name' = IF name # "none" THEN name ELSE ports[1]
           /\ is_connected' = TRUE
      ELSE /\ midi_in' = "closed"
           /\ UNCHANGED << port_name, is_connected >>

\* POST /api/midi/connect
connect_midi(name, ports) ==
  /\ connect(name, ports)
  /\ midi_connected' = connect_returns(name, ports)
  /\ UNCHANGED << event_callback, events_processed >>
  /\ UNCHANGED << configVars, lockVars, cleared, wsVars, is_initialized, lifecycle, ledVars,
                  active_animations, current_scheme, commands_processed,
                  ingestVars, renderVars >>

\* POST /api/midi/disconnect: disconnect(), then the flag of app_status
disconnect_midi ==
  /\ midi_in' = "none"
  /\ is_connected' = FALSE
  /\ port_name' = "none"
  /\ midi_connected' = FALSE
  /\ UNCHANGED << event_callback, events_processed >>
  /\ UNCHANGED << configVars, lockVars, cleared, wsVars, is_initialized, lifecycle, ledVars,
                  active_animations, current_scheme, commands_processed,
                  ingestVars, renderVars >>

\* GET /api/status: 'midi_connected' of app_status is overwritten with the
\* handler's is_connected, 'led_initialized' with the controller's flag
get_status ==
  [midi_connected |-> is_connected, led_initialized |-> is_initialized,
   events_processed |-> events_processed]

\* ----------------------------------------------------------- MIDIProcessor
\* set_event_callback(callback): the one callback the handler holds
set_event_callback(current, callback) == callback

\* MIDIProcessor.__init__: set_event_callback(self._handle_midi_event)
MIDIProcessor_init ==
  /\ event_callback = "none"
  /\ event_callback' =
       set_event_callback(event_callback, "_handle_midi_event")
  /\ UNCHANGED << midi_in, port_name, is_connected, midi_connected,
                  events_processed >>
  /\ UNCHANGED << configVars, lockVars, cleared, wsVars, is_initialized,
                  lifecycle, ledVars, active_animations, current_scheme,
                  commands_processed, ingestVars, renderVars >>

\* initialize_components, after led_controller.initialize() and
\* MIDIProcessor(...): set_event_callback(handle_midi_event)
InstallCallback ==
  /\ lifecycle # "new"
  /\ event_callback = "_handle_midi_event"
  /\ event_callback' =
       set_event_callback(event_callback, "handle_midi_event")
  /\ UNCHANGED << midi_in, port_name, is_connected, midi_connected,
                  events_processed >>
  /\ UNCHANGED << configVars, lockVars, cleared, wsVars, is_initialized,
                  lifecycle, ledVars, active_animations, current_scheme,
                  commands_processed, ingestVars, renderVars >>

\* MIDIProcessor._handle_midi_event(event), when the event source calls it:
\* the counter, and a broadcast that reaches the observers registered
\* (none is, here)
_handle_midi_event(e) ==
  /\ event_callback = "_handle_midi_event"
  /\ pc_ingest = "idle"
  /\ events_processed < MaxCommands
  /\ events_processed' = events_processed + 1
  /\ UNCHANGED << midi_in, port_name, is_connected, midi_connected,
                  event_callback >>
  /\ UNCHANGED << configVars, lockVars, cleared, wsVars, is_initialized,
                  lifecycle, ledVars, active_animations, current_scheme,
                  commands_processed, ingestVars, renderVars >>

\* -------------------------------------------------------- WebSocketManager
\* The coroutines of one event loop: each action is the stretch of a
\* coroutine between two awaits.
Observers == 1 .. MaxClients

\* await websocket.send(...): it returns, or raises ConnectionClosed, or
\* raises another exception
SendOutcomes == {"ok", "closed", "error"}

send_task(websocket, of) == [client |-> websocket, of |-> of]

without_client(websocket) ==
  [c \in DOMAIN clients \ {websocket} |-> clients[c]]

\* register_client(websocket) up to its await of send_to_client: the
\* websocket of a new connection enters the registry, its confirmation is
\* to be sent
register_client(websocket) ==
  /\ websocket \notin DOMAIN clients
  /\ websocket \notin clients_list
  /\ \A t \in tasks : t.client # websocket
  /\ clients' = [c \in DOMAIN clients \cup {websocket} |->
                   IF c = websocket THEN 0 ELSE clients[c]]
  /\ tasks' = tasks \cup {send_task(websocket, "register")}
  /\ UNCHANGED << clients_list, controllerVars >>

\* unregister_client(websocket), called when the connection's handler ends
\* (and by a send that found the connection closed): "if websocket in
\* self.clients: del self.clients[websocket]"
unregister_client(websocket) ==
  /\ clients' = without_client(websocket)
  /\ UNCHANGED << clients_list, tasks, controllerVars >>

\* broadcast_message(message) up to its await of asyncio.gather: with no
\* client it returns; else the keys are listed and one send_to_client is
\* created for each
broadcast_message ==
  /\ clients_list = {}
  /\ DOMAIN clients # {}
  /\ \A c \in DOMAIN clients : clients[c] < MaxSent
  /\ clients_list' = DOMAIN clients
  /\ tasks' = tasks \cup {send_task(c, "broadcast") : c \in DOMAIN clients}
  /\ UNCHANGED << clients, controllerVars >>

\* send_to_client gone wrong: a send that returns is counted for its client,
\* registered or not
send_to_client_counted_anyway(task, outcome) ==
  /\ task \in tasks
  /\ tasks' = tasks \ {task}
  /\ clients' =
       CASE outcome = "ok" ->
              [c \in DOMAIN clients \cup {task.client} |->
                 IF c \in DOMAIN clients THEN
                   IF c = task.client THEN clients[c] + 1 ELSE clients[c]
                 ELSE 1]
         [] outcome = "closed" -> without_client(task.client)
         [] OTHER -> clients
  /\ UNCHANGED << clients_list, controllerVars >>

\* send_to_client(websocket, message) runs: a send that returns is counted
\* if the client is still registered; ConnectionClosed unregisters the
\* client; any other exception is logged and nothing else
send_to_client(task, outcome) ==
  /\ task \in tasks
  /\ tasks' = tasks \ {task}
  /\ clients' =
       CASE outcome = "ok" ->
              [c \in DOMAIN clients |->
                 IF c = task.client THEN clients[c] + 1 ELSE clients[c]]
         [] outcome = "closed" -> without_client(task.client)
         [] OTHER -> clients
  /\ UNCHANGED << clients_list, controllerVars >>

\* asyncio.gather has collected every send of the broadcast (exceptions
\* included, return_exceptions=True): broadcast_message returns
broadcast_return ==
  /\ clients_list # {}
  /\ \A t \in tasks : t.of # "broadcast"
  /\ clients_list' = {}
  /\ UNCHANGED << clients, tasks, controllerVars >>

\* -------------------------------------------------------- specifications
\* The running system: the controller is initialized once, then events are
\* ingested, frames are rendered and the strip may be cleared, concurrently.
Control ==
  \/ Initialize
  \/ ClearAll

Ingest ==
  \/ \E e \in Events : HandleMidiEvent(e)
  \/ NoteOnRemove
  \/ NoteOnSet
  \/ NoteOffFade
  \/ NoteOffSet
  \/ Return

Api == \E note \in DOMAIN note_to_led_map, ft \in FadeTimes : NoteOffCall(note, ft)

Render ==
  \/ RenderStart
  \/ RenderTick
  \/ RenderApply

Next == Control \/ Ingest \/ Api \/ Render \/ Tick

Spec == Init /\ [][Next]_vars

\* the render loop never stops and the clock never stops
Fairness ==
  /\ WF_vars(RenderStart)
  /\ WF_vars(RenderTick)
  /\ WF_vars(RenderApply)
  /\ WF_vars(Tick)

FairSpec == Spec /\ Fairness

\* The same system on a strip whose writes may raise, in the runs in which
\* no call on the controller is in progress while a frame is rendered.
SerialFaultNext ==
  \/ Initialize
  \/ pc_render = "sleep" /\ Ingest
  \/ pc_render = "sleep" /\ Api
  \/ pc_render = "sleep" /\ SetLedColorFails
  \/ pc_ingest = "idle" /\ Render
  \/ pc_ingest = "idle" /\ \E k \in 1 .. NumLeds : RenderApplyFails(k)
  \/ Tick

SerialFaultSpec == Init /\ [][SerialFaultNext]_vars

\* The same system with the scheme changed at any point, in the runs in
\* which no call on the controller is in progress while a frame is rendered.
SchemeNext ==
  \/ Control
  \/ pc_render = "sleep" /\ Ingest
  \/ pc_render = "sleep" /\ Api
  \/ pc_ingest = "idle" /\ Render
  \/ Tick
  \/ \E scheme_name \in SchemeNames : SetColorScheme(scheme_name)

SchemeSpec == Init /\ [][SchemeNext]_vars

\* the same system shut down at some point
ShutdownNext == Next \/ ShutdownClear \/ ShutdownFinish

ShutdownSpec == Init /\ [][ShutdownNext]_vars

\* ------------------------------------------------------ locks and sinks
ControllerLock == "LEDController._lock"
AnimatorLock == "LEDAnimator._lock"
HandlerLock == "MIDIInputHandler._lock"

\* the event source calls its callback inside "with self._lock", from
\* _midi_callback and from simulate_note_on / simulate_note_off alike: all
\* of handle_midi_event runs under the handler's lock, a direct call does not
source_locks == IF caller' = "handler" THEN {HandlerLock} ELSE {}

\* The sink I/O calls a step makes, each with the context that makes it and
\* the locks that context holds at the call:
\*   _set_led_color writes self.pixels[led_index] inside "with self._lock";
\*   socketio.emit follows note_on / note_off inside handle_midi_event;
\*   update_display writes the pixels and calls show() inside its lock;
\*   clear_all fills the pixels and calls show() inside its lock.
sink_calls ==
  (IF (NoteOnSet \/ NoteOffSet) /\ has_pixels
     THEN {[context |-> "ingest", sink |-> "strip",
            locks |-> {ControllerLock} \cup source_locks]}
     ELSE {})
  \cup
  (IF emitted = << >> /\ emitted' # << >>
     THEN {[context |-> "ingest", sink |-> "broadcast",
            locks |-> source_locks]}
     ELSE {})
  \cup
  (IF RenderApply /\ has_pixels
     THEN {[context |-> "render", sink |-> "strip",
            locks |-> {ControllerLock}]}
     ELSE {})
  \cup
  (IF (Initialize \/ ClearAll) /\ has_pixels'
     THEN {[context |-> "control", sink |-> "strip",
            locks |-> {ControllerLock}]}
     ELSE {})

\* The running system until a clear_all() that no event follows: the
\* render loop and the clock go on.
ClearAllThenQuiet ==
  /\ pc_ingest = "idle"
  /\ lifecycle = "running"
  /\ clear_all
  /\ cleared' = TRUE
  /\ UNCHANGED << configVars, midiVars, lockVars, wsVars, is_initialized,
                  lifecycle, active_animations, current_scheme,
                  commands_processed, ingestVars, renderVars >>

ClearNext ==
  \/ ~cleared /\ (Control \/ Ingest \/ Api)
  \/ ClearAllThenQuiet
  \/ Render
  \/ Tick

ClearSpec == Init /\ [][ClearNext]_vars

\* The application from the construction of its components on: the event
\* source calls the one callback it holds.
ProcessorInit == components_init(DefaultConfig, "none")

ProcessorNext ==
  \/ Initialize
  \/ MIDIProcessor_init
  \/ InstallCallback
  \/ \E e \in Events : _handle_midi_event(e)
  \/ event_callback = "handle_midi_event" /\ Ingest

ProcessorSpec == ProcessorInit /\ [][ProcessorNext]_vars

\* ------------------------------------------------------- lock protocol
\* What a call does with the locks, in the order of its code: "with lock:"
\* is an acquire and a release around the effects of its block.
acquire(lock) == [op |-> "acquire", on |-> lock]
release(lock) == [op |-> "release", on |-> lock]
effect(what) == [op |-> "effect", on |-> what]

remove_animation_ops ==
  << acquire(AnimatorLock), effect("table"), release(AnimatorLock) >>

add_fade_out_ops ==
  << acquire(AnimatorLock), effect("table"), release(AnimatorLock) >>

get_current_colors_ops ==
  << acquire(AnimatorLock), effect("table"), release(AnimatorLock) >>

_set_led_color_ops ==
  << acquire(ControllerLock), effect("display"), release(ControllerLock) >>

note_on_ops == remove_animation_ops \o _set_led_color_ops

note_off_ops(ft) == IF ft > 0 THEN add_fade_out_ops ELSE _set_led_color_ops

\* update_display gone wrong: the colours are fetched inside the lock
update_display_ops_nested ==
  << acquire(ControllerLock) >> \o get_current_colors_ops
    \o << effect("display"), release(ControllerLock) >>

update_display_ops ==
  get_current_colors_ops
    \o << acquire(ControllerLock), effect("display"), release(ControllerLock) >>

clear_all_ops ==
  << acquire(ControllerLock), effect("display"), release(ControllerLock) >>

\* animator.stop() takes no lock; clear_all() follows
shutdown_ops == clear_all_ops

\* set_brightness and set_color_scheme take no lock
set_config_ops == << effect("config") >>

EventKinds == {"note_on", "note_off", "control_change"}

\* handle_midi_event: the controller's call, then socketio.emit
handle_midi_event_ops(kind) ==
  (CASE kind = "note_on" -> note_on_ops
     [] kind = "note_off" -> note_off_ops(DefaultFadeTime)
     [] OTHER -> << >>)
    \o << effect("broadcast") >>

\* the event source gone wrong: the callback is called outside the lock
callback_ops_unlocked(kind) == handle_midi_event_ops(kind)

\* _midi_callback, simulate_note_on, simulate_note_off:
\* "with self._lock: self.event_callback(event)"
callback_ops(kind) ==
  << acquire(HandlerLock) >> \o handle_midi_event_ops(kind)
    \o << release(HandlerLock) >>

\* the calls each thread makes
calls(thread) ==
  CASE thread \in {"device", "synthetic"} ->
         {callback_ops(kind) : kind \in EventKinds}
    [] thread = "render" -> {update_display_ops}
    [] OTHER -> {clear_all_ops, shutdown_ops, set_config_ops,
                 note_off_ops(0)}

\* a thread that is in no call starts one
Call(thread) ==
  /\ todo[thread] = << >>
  /\ \E ops \in calls(thread) : todo' = [todo EXCEPT ![thread] = ops]
  /\ UNCHANGED << lock_owner, is_initialized, lifecycle, ledVars,
                  active_animations, current_scheme, commands_processed,
                  ingestVars, renderVars, configVars, midiVars, cleared, wsVars >>

\* Lock.acquire(): the thread goes on once nobody is inside the lock (the
\* locks are not reentrant: nor the thread itself)
Acquire(thread) ==
  /\ todo[thread] # << >>
  /\ Head(todo[thread]).op = "acquire"
  /\ lock_owner[Head(todo[thread]).on] = "none"
  /\ lock_owner' = [lock_owner EXCEPT ![Head(todo[thread]).on] = thread]
  /\ todo' = [todo EXCEPT ![thread] = Tail(@)]
  /\ UNCHANGED << is_initialized, lifecycle, ledVars,
                  active_animations, current_scheme, commands_processed,
                  ingestVars, renderVars, configVars, midiVars, cleared, wsVars >>

Release(thread) ==
  /\ todo[thread] # << >>
  /\ Head(todo[thread]).op = "release"
  /\ lock_owner' = [lock_owner EXCEPT ![Head(todo[thread]).on] = "none"]
  /\ todo' = [todo EXCEPT ![thread] = Tail(@)]
  /\ UNCHANGED << is_initialized, lifecycle, ledVars,
                  active_animations, current_scheme, commands_processed,
                  ingestVars, renderVars, configVars, midiVars, cleared, wsVars >>

\* the thread does what the block is there for
Effect(thread) ==
  /\ todo[thread] # << >>
  /\ Head(todo[thread]).op = "effect"
  /\ todo' = [todo EXCEPT ![thread] = Tail(@)]
  /\ UNCHANGED << lock_owner, is_initialized, lifecycle, ledVars,
                  active_animations, current_scheme, commands_processed,
                  ingestVars, renderVars, configVars, midiVars, cleared, wsVars >>

LockNext ==
  \E thread \in Threads :
    \/ Call(thread)
    \/ Acquire(thread)
    \/ Release(thread)
    \/ Effect(thread)

LockSpec == Init /\ [][LockNext]_vars

\* a thread that is runnable runs, and a thread that waits for a lock gets
\* it if the lock is free again and again
LockFairness ==
  \A thread \in Threads :
    /\ SF_vars(Acquire(thread))
    /\ WF_vars(Release(thread))
    /\ WF_vars(Effect(thread))

LockFairSpec == LockSpec /\ LockFairness

\* The running system, in the runs in which no call on the controller is in
\* progress while a frame is rendered, with the event source connected and
\* disconnected through the web routes.
SourceNext ==
  \/ Control
  \/ pc_render = "sleep" /\ Ingest
  \/ pc_ingest = "idle" /\ Render
  \/ Tick
  \/ \E name \in PortNames, ports \in PortLists : connect_midi(name, ports)
  \/ disconnect_midi

SourceSpec == Init /\ [][SourceNext]_vars

\* The controller called directly at every stage of its life: before
\* initialize(), while it runs and after shutdown(), with the render loop
\* polling it throughout.
DirectCalls ==
  \/ \E note \in Notes, velocity \in Velocities : note_on(note, velocity)
  \/ \E note \in Notes, ft \in FadeTimes : note_off(note, ft)
  \/ NoteOnRemove
  \/ NoteOnSet
  \/ NoteOffFade
  \/ NoteOffSet
  \/ Return

LifeNext ==
  \/ Control
  \/ pc_render = "sleep" /\ DirectCalls
  \/ pc_ingest = "idle" /\ Render
  \/ Tick
  \/ ShutdownClear
  \/ ShutdownFinish

LifeSpec == Init /\ [][LifeNext]_vars

\* The controller constructed from any configuration LEDConfig accepts
\* (the dataclass checks nothing): strips of 0 .. MaxStrip LEDs, at the
\* brightness of app.py's CONFIG or at 0.5, then brought up, cleared and
\* dimmed through set_brightness.
StripLengths == 0 .. MaxStrip
Brightnesses == {50, DefaultBrightness}
BrightnessInputs == {0 - 50, 0, 50, 100, 150}

ConfigInit ==
  \E num_leds \in StripLengths, brightness \in Brightnesses :
    LEDController_init([num_leds |-> num_leds, brightness |-> brightness])

ConfigNext ==
  \/ Control
  \/ \E brightness \in BrightnessInputs : SetBrightness(brightness)

ConfigSpec == ConfigInit /\ [][ConfigNext]_vars

\* The colour manager alone: any registered scheme is made current and
\* get_color is called for the ends of the keyboard, a white and a black key
\* in its middle, and every MIDI velocity.
ColorNotes == {FirstNote, 60, 61, LastNote}
MidiVelocities == 0 .. 127

ColorNext ==
  \/ Initialize
  \/ \E scheme_name \in color_schemes : SetColorScheme(scheme_name)
  \/ \E note \in ColorNotes, velocity \in MidiVelocities : GetColor(note, velocity)

ColorSpec == Init /\ [][ColorNext]_vars

\* The display state alone: the controller is brought up and cleared, and
\* _set_led_color is called with any index, on and off the strip, and any
\* of the primary colours.
WriteIndices == (0 - 1) .. config.num_leds
WriteColors == {<< r, g, b >> : r \in {0, 255}, g \in {0, 255}, b \in {0, 255}}

WriteNext ==
  \/ Control
  \/ \E led_index \in WriteIndices, value \in WriteColors :
       SetLedColor(led_index, value)

WriteSpec == Init /\ [][WriteNext]_vars

\* The observers' side alone: websockets connect and disconnect while
\* messages are broadcast to them.
BroadcastNext ==
  \/ \E websocket \in Observers : register_client(websocket)
  \/ \E websocket \in Observers : unregister_client(websocket)
  \/ broadcast_message
  \/ \E task \in tasks, outcome \in SendOutcomes : send_to_client(task, outcome)
  \/ broadcast_return

BroadcastSpec == Init /\ [][BroadcastNext]_vars

\* ------------------------------------------------------------ properties
\* The notes the controller records as held: LEDController.__init__ creates
\* no such record and neither note_on nor note_off writes one.
active_notes == {}

\* the greatest difference in one channel between two colours
ChannelGap(c1, c2) ==
  LET gap(c) == IF c1[c] > c2[c] THEN c1[c] - c2[c] ELSE c2[c] - c1[c]
  IN IF gap(1) >= gap(2) /\ gap(1) >= gap(3) THEN gap(1)
     ELSE IF gap(2) >= gap(3) THEN gap(2) ELSE gap(3)

\* a step of get_color, whose arguments are event' and whose result is color'
GetColorStep == GetColor(event'.note, event'.velocity)

\* get_color has returned, under the scheme, the colour of the velocity
Returned(scheme, velocity) ==
  /\ current_scheme = scheme
  /\ event.type = "note_on"
  /\ event.velocity = velocity
  /\ color = get_color(scheme, event.note, velocity)

\* every colour that a scheme of the registry returns over the piano's notes
\* and MIDI's velocities is an RGB triple of bytes (a fact of the scheme
\* functions alone, evaluated once)
SchemeColorsInRange ==
  \A scheme \in color_schemes, note \in 21..108, velocity \in 0..127 :
    /\ DOMAIN get_color(scheme, note, velocity) = 1..3
    /\ \A c \in 1..3 : get_color(scheme, note, velocity)[c] \in 0..255

LedOf(note) == note_to_led_map[note]

MappedNotes == DOMAIN note_to_led_map

\* the led_index of every animation in a table
AnimatedLeds(anims) == {anims[i].led_index : i \in 1..Len(anims)}

\* the steps of the render context
TickStep == pc_render = "tick" /\ pc_render' = "apply"

ApplyStep == pc_render = "apply" /\ pc_render' = "sleep"

\* the ingest context is inside a call for this note
Touching(note) == pc_ingest # "idle" /\ event.note = note

\* note_on has returned True for a mapped note and its caller has not yet
\* returned
NoteOnReturned ==
  /\ pc_ingest = "return"
  /\ event.type = "note_on"
  /\ event.note \in MappedNotes
  /\ emitted # << >>

\* C1: when a note_on for a position with a fade interleaves with a tick of
\* update_display, then once note_on has returned there is no animation for
\* the note, and the tick, when it returns, leaves the position showing the
\* colour that note_on computed.
C1_NoteOnWinsOverTick ==
  /\ [](NoteOnReturned => ~HasAnim(active_animations, event.note))
  /\ [][(NoteOnReturned /\ ApplyStep
           /\ current_led_state[LedOf(event.note)] = color)
          => current_led_state'[LedOf(event.note)] = color]_vars

\* C2: the table never holds two animations for one position, and the step
\* that registers a fade leaves exactly one entry for the note's position,
\* holding the colour, the start time and the duration of this registration.
C2_OneAnimationPerPosition ==
  /\ [](\A i, j \in 1..Len(active_animations) :
          i # j => /\ active_animations[i].led_index # active_animations[j].led_index
                   /\ active_animations[i].note # active_animations[j].note)
  /\ [][(pc_ingest = "note_off_fade" /\ pc_ingest' = "return")
          => /\ Cardinality({i \in 1..Len(active_animations') :
                  active_animations'[i].led_index = LedOf(event.note)}) = 1
             /\ AnimOf(active_animations', event.note) =
                  [note |-> event.note, type |-> "fade_out",
                   led_index |-> LedOf(event.note), start_color |-> color,
                   elapsed |-> 0, duration |-> fade_time]
             /\ \A n \in MappedNotes \ {event.note} :
                  /\ HasAnim(active_animations', n) = HasAnim(active_animations, n)
                  /\ HasAnim(active_animations, n) =>
                       AnimOf(active_animations', n) = AnimOf(active_animations, n)]_vars

\* a fade of duration 1 that starts from a half-faded colour has just been
\* registered and is the only entry: it replaced the fade that was running
C2_Witness ==
  /\ pc_ingest = "return"
  /\ event.type = "note_off"
  /\ Len(active_animations) = 1
  /\ active_animations[1].note = event.note
  /\ active_animations[1].start_color = << 127, 0, 0 >>
  /\ active_animations[1].duration = 1
  /\ active_animations[1].elapsed = 0

\* the fade registered for the note has ended: no animation, the position
\* black, and no frame still to be applied that holds the position
Completed(note) ==
  /\ ~HasAnim(active_animations, note)
  /\ current_led_state[LedOf(note)] = Black
  /\ LedOf(note) \notin Keys(animated_colors)

\* C3: a registered fade, as long as no event touches its note, is completed
\* by some tick, which removes it and leaves the position black; from then on,
\* as long as no event touches the note, no tick reports the position and it
\* stays black.
C3_FadeCompletes ==
  /\ \A note \in DOMAIN _create_note_to_led_mapping(DefaultConfig.num_leds) :
       HasAnim(active_animations, note) ~> (Completed(note) \/ Touching(note))
  /\ [][\A note \in MappedNotes :
          (Completed(note) /\ ~Touching(note) /\ ~Touching(note)')
            => Completed(note)']_vars

\* a tick has just completed a fade that started from a lit colour; its frame
\* holds black for the position
C3_Witness ==
  /\ pc_render = "apply"
  /\ pc_ingest = "idle"
  /\ active_animations = << >>
  /\ Len(animated_colors) = 1
  /\ animated_colors[1].color = Black
  /\ current_led_state[animated_colors[1].led_index] # Black

\* C4: note_off reads the colour its fade starts from out of current_led_state
\* when it is called, registers the fade with that colour, and writes nothing
\* to current_led_state.
C4_FadeStartsFromDisplayedColor ==
  /\ [][(pc_ingest = "idle" /\ pc_ingest' \in {"note_off_fade", "note_off_set"})
          => /\ color' = current_led_state[LedOf(event'.note)]
             /\ current_led_state' = current_led_state]_vars
  /\ [][(pc_ingest = "note_off_fade" /\ pc_ingest' = "return")
          => /\ AnimOf(active_animations', event.note).start_color = color
             /\ current_led_state' = current_led_state]_vars

\* a fade has just been registered from a half-faded colour, which no scheme
\* gives a note_on
C4_Witness ==
  /\ pc_ingest = "return"
  /\ event.type = "note_off"
  /\ HasAnim(active_animations, event.note)
  /\ AnimOf(active_animations, event.note).start_color = << 127, 0, 0 >>
  /\ AnimOf(active_animations, event.note).elapsed = 0
  /\ current_led_state[LedOf(event.note)] = << 127, 0, 0 >>

\* C5: handling an event that is no note event, or whose note has no
\* position, changes neither current_led_state nor the pixel buffer nor the
\* table, and the event is emitted.
C5_UnmappedEventOnlyBroadcast ==
  [][(pc_ingest = "idle" /\ caller' = "handler" /\ pc_ingest' # "idle"
        /\ (event'.type = "control_change" \/ event'.note \notin MappedNotes))
       => /\ current_led_state' = current_led_state
          /\ pixels' = pixels
          /\ active_animations' = active_animations
          /\ pc_ingest' = "return"
          /\ emitted' = << payload(event') >>]_vars

\* a note off the strip has been handled and emitted while a LED is lit and a
\* fade is running
C5_Witness ==
  /\ pc_ingest = "return"
  /\ event.type = "note_on"
  /\ event.note \notin MappedNotes
  /\ emitted = << payload(event) >>
  /\ current_led_state # AllBlack
  /\ active_animations # << >>

\* C6: whatever happens while an event is handled, handle_midi_event has
\* emitted the event when it returns.
C6_EventAlwaysEmitted ==
  (pc_ingest = "return" /\ caller = "handler") => emitted = << payload(event) >>

\* C7: a tick of update_display, even one whose write to the strip raises,
\* loses no outcome of its frame: every position of the frame either shows
\* the frame's colour or still has its animation, to be reported again.
C7_FrameOutcomeKept ==
  [][ApplyStep
       => \A i \in 1..Len(animated_colors) :
            \/ current_led_state'[animated_colors[i].led_index] =
                 animated_colors[i].color
            \/ animated_colors[i].led_index \in AnimatedLeds(active_animations')]_vars

\* C8: with a strip whose writes succeed, the pixel buffer equals
\* current_led_state in every state, so at every show(): each writer changes
\* both under the controller's lock, whatever the interleaving.
C8_PixelsEqualDisplayState ==
  has_pixels => pixels = current_led_state

\* update_display has applied and shown a frame with a half-faded colour
C8_Witness ==
  /\ pc_render = "sleep"
  /\ has_pixels
  /\ current_led_state[0] = << 127, 0, 0 >>
  /\ pixels[0] = << 127, 0, 0 >>
  /\ HasAnim(active_animations, FirstNote)

\* C9: a second get_current_colors with the same reading of the clock, right
\* after a first one, returns what the first returned.
C9_SecondTickIdentical ==
  [][TickStep
       => current_colors(active_animations', current_time_age) = animated_colors']_vars

\* C9, amended: the second call decays nothing further and leaves the table
\* as the first left it; it returns the first call's colour for every
\* animation the first call kept, and nothing for those the first call
\* completed, which the first call alone reports, as black; so the two
\* results are identical when the first call completed no animation.
C9_SecondTickNoFurtherDecay ==
  [][TickStep
       => LET first == animated_colors'
              second == current_colors(active_animations', current_time_age)
          IN /\ animations_kept(active_animations', current_time_age) =
                  active_animations'
             /\ Keys(second) = AnimatedLeds(active_animations')
             /\ Keys(second) \subseteq Keys(first)
             /\ \A led \in Keys(second) :
                  ColorAt(second, led) = ColorAt(first, led)
             /\ \A led \in Keys(first) \ Keys(second) :
                  ColorAt(first, led) = Black
             /\ active_animations' = active_animations => second = first]_vars

\* a tick has just completed one fade and kept another, half-faded
C9_Witness ==
  /\ pc_render = "apply"
  /\ Len(animated_colors) = 2
  /\ Len(active_animations) = 1
  /\ active_animations[1].start_color = << 255, 0, 0 >>
  /\ ColorAt(animated_colors, active_animations[1].led_index) = << 127, 0, 0 >>
  /\ \E i \in 1..2 : /\ animated_colors[i].color = Black
                     /\ animated_colors[i].led_index #
                          active_animations[1].led_index

\* C10: every position get_current_colors returns has changed colour since
\* the frame before, that is, against current_led_state.
C10_ReturnsOnlyChangedPositions ==
  [][TickStep
       => \A i \in 1..Len(animated_colors') :
            animated_colors'[i].color #
              current_led_state[animated_colors'[i].led_index]]_vars

\* C10, amended: get_current_colors returns exactly the positions that have
\* an animation when it is called, those completed by this call included,
\* whether their colour has changed or not; positions without an animation
\* are omitted.
C10_ReturnsAnimatedPositions ==
  [][TickStep
       => /\ Keys(animated_colors') = AnimatedLeds(active_animations)
          /\ Len(animated_colors') = Len(active_animations)]_vars

\* a tick has just returned a lit position with the colour it already shows,
\* together with a position whose fade it completed, and not the idle one
C10_Witness ==
  /\ pc_render = "apply"
  /\ \E i \in 1..Len(animated_colors) :
       /\ animated_colors[i].color # Black
       /\ animated_colors[i].color =
            current_led_state[animated_colors[i].led_index]
  /\ \E i \in 1..Len(animated_colors) :
       animated_colors[i].led_index \notin AnimatedLeds(active_animations)
  /\ Keys(animated_colors) # Leds

\* elapsed / duration clamped to [0, 1], as a number of ticks of duration
clamped_elapsed(anim_data, age) ==
  IF elapsed_at(anim_data, age) < 0
    THEN 0
    ELSE IF elapsed_at(anim_data, age) > anim_data.duration
           THEN anim_data.duration
           ELSE elapsed_at(anim_data, age)

\* C11: for every animation in the table, get_current_colors returns the
\* start colour scaled by 1 - clamp(elapsed / duration, 0, 1) and truncated,
\* so every channel lies between 0 and the start colour's channel, whatever
\* the reading of the clock; at factor 0 it returns black and removes the
\* animation.
C11_FadeWithinStartColor ==
  [][TickStep
       => \A i \in 1..Len(active_animations) :
            LET a == active_animations[i]
                out == ColorAt(animated_colors', a.led_index)
                left == a.duration - clamped_elapsed(a, current_time_age)
            IN /\ \A c \in 1..3 :
                    /\ 0 <= out[c]
                    /\ out[c] <= a.start_color[c]
                    /\ out[c] = (a.start_color[c] * left) \div a.duration
               /\ left = 0 => /\ out = Black
                              /\ ~HasAnim(active_animations', a.note)]_vars

\* C12: a note_on that has lit a position carried a note and a velocity
\* above 0: on both ingest paths a Note On with velocity 0 is made a note_off
\* before it reaches the handler.
C12_LitByNonzeroVelocity ==
  NoteOnReturned => (event.note # None /\ event.velocity # None
                       /\ event.velocity > 0)

\* C13: the step of note_off with fade_time 0 that sets the position leaves
\* it black and leaves no animation for the note, so that no later tick
\* writes to the position.
C13_ImmediateOffCancelsFade ==
  [][(pc_ingest = "note_off_set" /\ pc_ingest' = "return")
       => /\ current_led_state'[LedOf(event.note)] = Black
          /\ ~HasAnim(active_animations', event.note)
          /\ LedOf(event.note) \notin AnimatedLeds(active_animations')]_vars

\* C14: set_scheme with a name outside the registry returns False and
\* leaves the current scheme as it is; with a registered name it returns True
\* and makes it current; so the current scheme is always registered; and
\* get_color under a scheme name outside the registry gives the velocity
\* scheme's colour.
C14_SetSchemeChecksRegistry ==
  /\ [](current_scheme \in
          {"rainbow", "velocity", "note_based", "white_keys", "fire", "ocean"})
  /\ [][\A name \in SchemeNames :
          SetColorScheme(name)
            => /\ set_scheme_returns(name) =
                    (name \in {"rainbow", "velocity", "note_based",
                               "white_keys", "fire", "ocean"})
               /\ set_scheme_returns(name) => current_scheme' = name
               /\ ~set_scheme_returns(name) => current_scheme' = current_scheme]_vars
  /\ [](\A note \in Notes, velocity \in Velocities :
          get_color("no_such_scheme", note, velocity) =
            _velocity_scheme(note, velocity))

\* set_scheme has made a registered scheme current, and a note_on has taken
\* its colour from it
C14_Witness ==
  /\ current_scheme = "fire"
  /\ NoteOnReturned
  /\ color = _fire_scheme(event.note, velocity_or_64(event.velocity))
  /\ color # _velocity_scheme(event.note, velocity_or_64(event.velocity))

\* C15: a step that changes the current scheme changes neither the table nor
\* current_led_state nor the pixel buffer, and get_current_colors returns
\* after it, for every reading of the clock, what it would have returned
\* before it.
C15_SchemeChangeLeavesFades ==
  [][current_scheme' # current_scheme
       => /\ active_animations' = active_animations
          /\ current_led_state' = current_led_state
          /\ pixels' = pixels
          /\ \A age \in 0..MaxLag :
               current_colors(active_animations, age)' =
                 current_colors(active_animations, age)]_vars

\* under the fire scheme a tick has just returned half of the colour that a
\* fade captured under the velocity scheme
C15_Witness ==
  /\ current_scheme = "fire"
  /\ pc_render = "apply"
  /\ Len(active_animations) = 1
  /\ active_animations[1].start_color =
       _velocity_scheme(active_animations[1].note, 127)
  /\ active_animations[1].start_color #
       _fire_scheme(active_animations[1].note, 127)
  /\ animated_colors = << [led_index |-> active_animations[1].led_index,
                           color |-> << 127, 0, 0 >>] >>

\* C16: set_brightness with a value outside [0, 1] leaves the stored
\* brightness as it was (an invalid value is rejected at the call that
\* introduces it and the previous valid state is retained).
C16_InvalidBrightnessRejected ==
  [][\A brightness \in BrightnessInputs :
       (SetBrightness(brightness) /\ (brightness < 0 \/ brightness > 100))
         => config'.brightness = config.brightness]_vars

\* C17: for every note n in 0..127 and every strip length L, the note has
\* position n - 21 exactly when 21 <= n <= 108 and n - 21 < L, and no
\* position otherwise; every position lies in [0, L).
C17_LinearTruncatedMapping ==
  \A n \in 0..127 :
    /\ (21 <= n /\ n <= 108 /\ n - 21 < config.num_leds)
         => (n \in DOMAIN note_to_led_map /\ note_to_led_map[n] = n - 21)
    /\ ~(21 <= n /\ n <= 108 /\ n - 21 < config.num_leds)
         => n \notin DOMAIN note_to_led_map
    /\ n \in DOMAIN note_to_led_map
         => (0 <= note_to_led_map[n] /\ note_to_led_map[n] < config.num_leds)

\* a running controller on a strip of 40 LEDs: middle C is on the last LED
\* and the note above it has no position
C17_Witness ==
  /\ lifecycle = "running"
  /\ config.num_leds = 40
  /\ 60 \in DOMAIN note_to_led_map
  /\ note_to_led_map[60] = 39
  /\ 61 \notin DOMAIN note_to_led_map

\* C18: when clear_all() returns, every slot of current_led_state is black
\* and the all-black frame has been shown on the strip.
C18_ClearAllBlackAndFlushed ==
  [][(ClearAll \/ Initialize)
       => /\ \A i \in Leds : current_led_state'[i] = Black
          /\ RASPBERRY_PI => /\ pixels' = [i \in Leds |-> Black]
                             /\ strip' = [i \in Leds |-> Black]]_vars

\* clear_all() has returned while a fade from a lit colour was running:
\* only it can have blackened the LED, whose fade has not completed
C18_Witness ==
  /\ pc_ingest = "idle"
  /\ pc_render = "sleep"
  /\ commands_processed = 2
  /\ Len(active_animations) = 1
  /\ active_animations[1].start_color = << 255, 0, 0 >>
  /\ active_animations[1].elapsed < active_animations[1].duration
  /\ \A i \in Leds : current_led_state[i] = Black /\ strip[i] = Black

\* C19: in every reachable state current_led_state has exactly num_leds
\* slots, each an RGB triple with every channel in 0..255; all slots are
\* black at start; every colour a scheme returns for a note in 21..108 and a
\* velocity in 0..127 has every channel in 0..255.
C19_DisplayStateWellFormed ==
  /\ DOMAIN current_led_state = 0 .. (config.num_leds - 1)
  /\ \A i \in DOMAIN current_led_state :
       /\ DOMAIN current_led_state[i] = 1..3
       /\ \A c \in 1..3 : current_led_state[i][c] \in 0..255
  /\ lifecycle = "new" => \A i \in DOMAIN current_led_state :
                            current_led_state[i] = Black
  /\ SchemeColorsInRange

\* C20: a broadcast creates a send for every observer registered when it
\* starts and returns only when each of them has run; a send that fails
\* leaves the other sends to run; and a send that fails, whatever the
\* failure, leaves its observer out of the client registry.
C20_BroadcastBestEffortDropsFailed ==
  [][/\ broadcast_message
          => \A c \in DOMAIN clients : send_task(c, "broadcast") \in tasks'
     /\ broadcast_return
          => \A c \in clients_list : send_task(c, "broadcast") \notin tasks
     /\ \A task \in tasks, outcome \in {"closed", "error"} :
          (task.of = "broadcast" /\ send_to_client(task, outcome))
            => /\ tasks' = tasks \ {task}
               /\ task.client \notin DOMAIN clients']_vars

\* C21: when handle_midi_event returns, whatever the event, it has emitted
\* exactly one payload, and every field the event holds is in the payload
\* with the event's value.
C21_EventForwardedUnchanged ==
  (pc_ingest = "return" /\ caller = "handler")
    => /\ Len(emitted) = 1
       /\ emitted[1].type = event.type
       /\ \A f \in DOMAIN event \ {"type"} :
            event[f] # None
              => (f \in DOMAIN emitted[1] /\ emitted[1][f] = event[f])

\* C22: _set_led_color(p, c) with p on the strip leaves c at p in
\* current_led_state and every other position as it was; with p off the
\* strip it changes nothing.
C22_WriteThenRead ==
  [][\A p \in WriteIndices, c \in WriteColors :
       SetLedColor(p, c)
         => IF 0 <= p /\ p < config.num_leds
              THEN /\ current_led_state'[p] = c
                   /\ \A q \in Leds \ {p} :
                        current_led_state'[q] = current_led_state[q]
              ELSE /\ current_led_state' = current_led_state
                   /\ pixels' = pixels]_vars

\* two writes have left two colours side by side on a running controller
C22_Witness ==
  /\ lifecycle = "running"
  /\ current_led_state[0] = << 0, 255, 0 >>
  /\ current_led_state[1] = << 255, 0, 255 >>
  /\ pixels = current_led_state

\* C23: the velocity scheme returns (0, 0, 255) at velocity 0 and
\* (255, 0, 0) at velocity 127 for every note, and no channel differs by more
\* than 1 unit between the colours for v=63 and v=65.
C23_VelocityEndsAndMidpointWithinOne ==
  [][(current_scheme = "velocity" /\ GetColorStep)
         => LET note == event'.note
                velocity == event'.velocity IN
            /\ velocity = 0 => color' = << 0, 0, 255 >>
            /\ velocity = 127 => color' = << 255, 0, 0 >>
            /\ velocity = 63
                 => ChannelGap(color', get_color("velocity", note, 65)) <= 1]_vars

\* C23, amended: the ends are (0, 0, 255) and (255, 0, 0); the scheme is
\* continuous at the midpoint, where its two segments meet in (0, 255, 255):
\* v=63 gives (0, 252, 255), v=64 gives (2, 252, 252) and v=65 gives
\* (6, 248, 248), and from any velocity to the next no channel differs by
\* more than 5 units, the scheme's slope of 510/127 a step rounded up.
C23_VelocityEndsAndMidpointContinuous ==
  [][(current_scheme = "velocity" /\ GetColorStep)
         => LET note == event'.note
                velocity == event'.velocity IN
            /\ velocity = 0 => color' = << 0, 0, 255 >>
            /\ velocity = 127 => color' = << 255, 0, 0 >>
            /\ velocity = 63 => color' = << 0, 252, 255 >>
            /\ velocity = 64 => color' = << 2, 252, 252 >>
            /\ velocity = 65 => color' = << 6, 248, 248 >>
            /\ velocity < 127
                 => ChannelGap(color', get_color("velocity", note,
                                                 velocity + 1)) <= 5]_vars

\* get_color has returned the velocity scheme's colour just past the midpoint
C23_Witness ==
  /\ Returned("velocity", 64)
  /\ color = << 2, 252, 252 >>
  /\ get_color("velocity", event.note, 63) = << 0, 252, 255 >>

\* C24: the fire and ocean schemes are continuous at their segment
\* boundaries: from any velocity to the next, the two on either side of a
\* breakpoint included, no channel differs by more than the steepest
\* segment's slope for one step of velocity (255/(0.3*127), under 7 units,
\* for fire; 255/(0.2*127), under 11 units, for ocean), one unit allowed for
\* the truncation to integers.
C24_FireOceanContinuous ==
  [][(GetColorStep /\ event'.velocity < 127)
         => LET note == event'.note
                velocity == event'.velocity IN
            /\ current_scheme = "fire"
                 => ChannelGap(color', get_color("fire", note,
                                                 velocity + 1)) <= 8
            /\ current_scheme = "ocean"
                 => ChannelGap(color', get_color("ocean", note,
                                                 velocity + 1)) <= 12]_vars

\* C25: the animation table is keyed by LED index: a fade started for LED
\* index i on an empty table leaves exactly one animation, whose key is i,
\* and cancelling the animation of index i leaves the table empty.
C25_TableKeyedByPosition ==
  [][(pc_ingest = "note_off_fade" /\ pc_ingest' = "return"
        /\ active_animations = << >>)
       => LET i == LedOf(event.note)
          IN /\ Len(active_animations') = 1
             /\ active_animations'[1].led_index = i
             /\ HasAnim(active_animations', i)
             /\ remove_animation(active_animations', i) = << >>]_vars

\* C26: a controller just constructed is not initialized; initialize() sets
\* is_initialized with every slot black; note_on and note_off called while
\* the controller is not initialized return False at once and leave
\* current_led_state, the animation table and the counter of processed
\* commands as they were, and no update_display starts while it is not
\* initialized.
C26_UninitializedRefuses ==
  /\ [](lifecycle = "new" => ~is_initialized)
  /\ [][Initialize
          => /\ is_initialized'
             /\ \A i \in Leds : current_led_state'[i] = Black]_vars
  /\ [][(pc_ingest = "idle" /\ pc_ingest' # "idle" /\ caller' = "api"
           /\ ~is_initialized)
          => /\ pc_ingest' = "return"
             /\ result' = "False"
             /\ current_led_state' = current_led_state
             /\ active_animations' = active_animations
             /\ commands_processed' = commands_processed]_vars
  /\ [][(pc_render = "sleep" /\ ~is_initialized)
          => /\ pc_render' = "sleep"
             /\ animated_colors' = animated_colors]_vars

\* note_on for a mapped note has returned False on a controller not yet
\* initialized
C26_Witness ==
  /\ lifecycle = "new"
  /\ ~is_initialized
  /\ pc_ingest = "return"
  /\ caller = "api"
  /\ event.type = "note_on"
  /\ event.note \in MappedNotes
  /\ result = "False"
  /\ current_led_state = AllBlack

\* C27: the controller tracks the notes that are held: once note_on has
\* returned True for a note the note is among them, and once the following
\* note_off has returned True it no longer is.
C27_HeldNotesTracked ==
  (pc_ingest = "return" /\ result = "True")
    => /\ event.type = "note_on" => event.note \in active_notes
       /\ event.type = "note_off" => event.note \notin active_notes

\* C28: after the event source is disconnected, or a connect attempt has
\* failed, the status reports midi_connected = false; neither stops the
\* render loop or touches the fades in flight.
C28_SourceLossReported ==
  [][/\ disconnect_midi
          => /\ ~get_status'.midi_connected
             /\ UNCHANGED << is_initialized, active_animations, renderVars >>
     /\ \A name \in PortNames, ports \in PortLists :
          (connect_midi(name, ports) /\ ~connect_returns(name, ports))
            => /\ ~get_status'.midi_connected
               /\ UNCHANGED << is_initialized, active_animations,
                               renderVars >>]_vars

\* C29: no execution context holds a lock (the display-state lock, the
\* animation-table lock or the event source's handler lock) at the moment
\* it makes a sink I/O call: a strip pixel write or show(), or a broadcast.
C29_NoLockAcrossSinkCall ==
  [][\A c \in sink_calls : c.locks = {}]_vars

\* C30: the strip sink is written and shown by the render context only; the
\* ingest context handling note_on / note_off never writes to it. (The
\* start-up and clear_all writes of the control context are let pass: the
\* formula is the part of the claim that names the ingest context.)
C30_StripOnlyFromRender ==
  [][\A c \in sink_calls : c.sink = "strip" => c.context # "ingest"]_vars

\* C31: after a NoteOn and a NoteOff with a fade on a mapped position, with
\* no further event on it, the position's Display State never rises from one
\* render tick to the next and never exceeds the colour it held at NoteOff
\* (then reaches black at the end of the fade and stays black). Checked on
\* the frame that follows the NoteOff: the position still shows the colour
\* the fade started from, no call for its note is in progress, and the frame
\* written over it has no channel above that colour.
C31_FadeNeverRises ==
  [][ApplyStep
       => \A i \in 1..Len(active_animations) :
            LET a == active_animations[i]
            IN (/\ a.led_index \in Keys(animated_colors)
                /\ current_led_state[a.led_index] = a.start_color
                /\ ~Touching(a.note))
                 => \A c \in 1..3 :
                      current_led_state'[a.led_index][c] <= a.start_color[c]]_vars

\* C32: a tick (get_current_colors) leaves every animation that survives it
\* as it was stored (start colour, start time, duration, position) and
\* removes exactly the animations whose progress elapsed / duration is at
\* least 1.0; and an animation leaves the table, or is stored anew, only by
\* such a completion, by remove_animation for its note, or by a new
\* registration for its note. (The clock moving on changes elapsed alone.)
C32_TickKeepsOrCompletes ==
  [][/\ TickStep
          => /\ \A i \in 1..Len(active_animations) :
                  LET a == active_animations[i]
                  IN IF elapsed_at(a, current_time_age) >= a.duration
                       THEN ~HasAnim(active_animations', a.note)
                       ELSE /\ HasAnim(active_animations', a.note)
                            /\ AnimOf(active_animations', a.note) = a
             /\ \A i \in 1..Len(active_animations') :
                  HasAnim(active_animations, active_animations'[i].note)
     /\ \A i \in 1..Len(active_animations) :
          LET a == active_animations[i]
          IN (\/ ~HasAnim(active_animations', a.note)
              \/ AnimOf(active_animations', a.note) # a)
               => \/ TickStep /\ elapsed_at(a, current_time_age) >= a.duration
                  \/ /\ pc_ingest = "note_on_remove"
                     /\ pc_ingest' = "note_on_set"
                     /\ event.note = a.note
                     /\ ~HasAnim(active_animations', a.note)
                  \/ /\ pc_ingest = "note_off_fade"
                     /\ pc_ingest' = "return"
                     /\ event.note = a.note
                     /\ HasAnim(active_animations', a.note)
                  \/ /\ active_animations' = advance(active_animations)
                     /\ UNCHANGED << pc_ingest, pc_render >>]_vars

\* a tick has just completed one fade and kept another, which is under way
C32_Witness ==
  /\ pc_render = "apply"
  /\ Len(active_animations) = 1
  /\ active_animations[1].elapsed > 0
  /\ active_animations[1].elapsed < active_animations[1].duration
  /\ Keys(animated_colors) = Leds
  /\ \E i \in 1..Len(animated_colors) :
       /\ animated_colors[i].led_index # active_animations[1].led_index
       /\ animated_colors[i].color = Black

\* the thread whose lock this thread is waiting for: "none" if it waits for
\* nothing
waits_for(thread) ==
  IF /\ todo[thread] # << >>
     /\ Head(todo[thread]).op = "acquire"
    THEN lock_owner[Head(todo[thread]).on]
    ELSE "none"

\* following waits_for from a thread, for n steps at most, comes to target
RECURSIVE WaitsOn(_, _, _)
WaitsOn(thread, target, n) ==
  /\ n > 0
  /\ waits_for(thread) # "none"
  /\ \/ waits_for(thread) = target
     \/ WaitsOn(waits_for(thread), target, n - 1)

Holds(thread, lock) == lock_owner[lock] = thread

\* C33: the pipeline is deadlock-free: no threads wait for one another's
\* locks in a cycle (nor a thread for a lock it holds itself), no thread
\* holds the animation-table lock and the display-state lock at once, and
\* every lock a thread has acquired it releases in the end.
C33_DeadlockFree ==
  /\ [](\A thread \in Threads :
          /\ ~WaitsOn(thread, thread, Cardinality(Threads))
          /\ ~(Holds(thread, AnimatorLock) /\ Holds(thread, ControllerLock)))
  /\ \A thread \in Threads, lock \in LockNames :
       Holds(thread, lock) ~> ~Holds(thread, lock)

\* the event threads queue up behind the render loop: one is inside the
\* handler lock and waits for the animation-table lock that the render loop
\* holds, the other waits for the handler lock
C33_Witness ==
  /\ Holds("render", AnimatorLock)
  /\ Holds("device", HandlerLock)
  /\ waits_for("device") = "render"
  /\ waits_for("synthetic") = "device"

\* C34: once clear_all() has returned, and as long as no NoteOn is handled,
\* every slot of Display State is black, through all later render ticks and
\* whatever fades were under way when clear_all was called.
C34_ClearedStaysBlack ==
  cleared => current_led_state = AllBlack

\* C35: after shutdown() has returned, is_initialized is false and every
\* slot of Display State is black, and stays so, however shutdown was
\* interleaved with a render tick or with a note_on / note_off that had
\* started before it finished.
C35_StoppedStaysBlack ==
  lifecycle = "stopped" => /\ ~is_initialized
                           /\ current_led_state = AllBlack

\* the threads that deliver events: the device callback and the simulation
EventSources == {"device", "synthetic"}

\* the thread is executing the registered event callback
in_callback(thread) ==
  /\ thread \in EventSources
  /\ todo[thread] # << >>
  /\ Head(todo[thread]) # acquire(HandlerLock)

\* C36: event handling is serialized: from the device callback or from a
\* simulating thread, at most one invocation of the event callback is
\* executing at any time, so no effect of one event on the table, the
\* display or the broadcast falls inside the handling of another, and the
\* events take effect in the order in which their callbacks were entered.
C36_EventsSerialized ==
  /\ [](\A t, u \in EventSources :
          (in_callback(t) /\ in_callback(u)) => t = u)
  /\ [][\A t, u \in EventSources :
          (Effect(t) /\ in_callback(u)) => t = u]_vars

\* one event is being handled, about to take effect, and the other thread
\* has its event ready and waits to enter the callback
C36_Witness ==
  /\ in_callback("synthetic")
  /\ Head(todo["synthetic"]).op = "effect"
  /\ todo["device"] # << >>
  /\ waits_for("device") = "synthetic"
  /\ ~in_callback("device")

\* C37: in every state reached through note_on, note_off and
\* update_display each animation of the table is stored under a mapped note,
\* its led_index is that note's position and lies in [0, num_leds), and its
\* duration is above 0; distinct notes have distinct positions, so no two
\* notes share the animation of one position.
C37_TableWellFormed ==
  /\ \A i \in 1..Len(active_animations) :
       LET a == active_animations[i]
       IN /\ a.note \in DOMAIN note_to_led_map
          /\ a.led_index = note_to_led_map[a.note]
          /\ a.led_index >= 0
          /\ a.led_index < config.num_leds
          /\ a.duration > 0
  /\ \A n1, n2 \in DOMAIN note_to_led_map :
       n1 # n2 => note_to_led_map[n1] # note_to_led_map[n2]
  /\ \A i, j \in 1..Len(active_animations) :
       active_animations[i].led_index = active_animations[j].led_index
         => i = j

\* the fades of two notes are under way, each on its own position, and a
\* third call, for the first of the two notes, is about to register again
C37_Witness ==
  /\ Len(active_animations) = 2
  /\ active_animations[1].note # active_animations[2].note
  /\ pc_ingest = "note_off_fade"
  /\ event.note = active_animations[1].note
  /\ fade_time > 0

\* the event source has just delivered an event to its callback
Delivered ==
  \/ pc_ingest = "idle" /\ pc_ingest' # "idle"
  \/ events_processed' # events_processed

\* C38: once the application has initialized its components, every event
\* the event source delivers raises the processed-event counter of the
\* status by exactly one and is passed to handle_midi_event as well.
C38_EveryEventCounted ==
  [][(event_callback = "handle_midi_event" /\ Delivered)
       => /\ get_status'.events_processed = get_status.events_processed + 1
          /\ pc_ingest' # "idle"]_vars

\* C39: an observer is in the client registry only between its registration
\* and its deregistration: it enters by register_client alone (a send that
\* completes after the deregistration does not bring it back), it is absent
\* once unregister_client has run at the end of its client_handler, whatever
\* broadcasts are in flight, and unregister_client on an absent observer
\* changes nothing.
C39_RegistryFollowsRegistration ==
  /\ [](\A websocket \in Observers :
          websocket \notin DOMAIN clients
            => without_client(websocket) = clients)
  /\ [][\A websocket \in Observers :
          /\ (websocket \notin DOMAIN clients /\ websocket \in DOMAIN clients')
               => /\ send_task(websocket, "register") \in tasks' \ tasks
                  /\ clients'[websocket] = 0
          /\ (\E task \in tasks, outcome \in SendOutcomes :
                send_to_client(task, outcome))
               => DOMAIN clients' \subseteq DOMAIN clients
          /\ unregister_client(websocket)
               => /\ websocket \notin DOMAIN clients'
                  /\ clients' = without_client(websocket)]_vars

\* a broadcast is in flight whose list holds an observer that has been
\* deregistered since, and the send to it has completed
C39_Witness ==
  \E websocket \in clients_list :
    /\ websocket \notin DOMAIN clients
    /\ \A task \in tasks : task.client # websocket
    /\ \E other \in DOMAIN clients : clients[other] > 0

====
